---------------------------- MODULE Spec2Model ----------------------------
(***************************************************************************)
(* Model of sigil_protocol/scanner.py: the pattern-bundle cache and the    *)
(* matching engine of RemoteScanner.                                       *)
(*                                                                         *)
(* Text and regular expressions are sequences of fragments.  A fragment    *)
(* is either a plain character ("a", "b", "x") or the name of a class of   *)
(* substrings one built-in regular expression recognises ("AKIA" stands    *)
(* for any substring matching AKIA[0-9A-Z]{16}).  The fragment "(" in a    *)
(* regular expression is an unterminated group: re.compile raises          *)
(* re.error on it.  pattern.search is containment of the expression as a   *)
(* contiguous run of the text.                                             *)
(***************************************************************************)
EXTENDS Integers, Sequences, FiniteSets, TLC

VARIABLES
    OFFLINE,        \* scanner.py:24, module constant read from the environment
    BUNDLE_TTL,     \* scanner.py:23
    _patterns,      \* RemoteScanner._patterns: the JSON value last installed
    heap,           \* the list objects self._compiled has referred to
    _compiled,      \* RemoteScanner._compiled: a reference into heap
    _fetched_at,    \* RemoteScanner._fetched_at
    _min_sev,       \* RemoteScanner._min_sev
    now,            \* time.monotonic()
    attempted,      \* history: _load() has been called
    built,          \* history: some _load() has run to its last line
    last,           \* history: what the most recently returned scan() did, and when
                    \* a scan() last called _load (loaded_at, -1 if none has)
    ret,            \* the value (or exception) of the most recently returned scan()
    pc,             \* per thread: position inside scan() / _load()
    loc,            \* per thread: the local variables of scan() / _load()
    failed_at,      \* history: when the latest fetch failed with a registry built
    env,            \* os.environ: SIGIL_OFFLINE, SIGIL_BUNDLE_TTL, SIGIL_MIN_SEVERITY
    MIN_SEVERITY,   \* scanner.py:25
    phase,          \* "imported": no RemoteScanner yet; "constructed"
    _default_scanner, \* scanner.py:148, the module-level default instance
    made,           \* history: how many default instances were constructed
    caller,         \* per caller of scanner(): position and the instance returned
    gate,           \* what the most recent adapter call did
    arg,            \* history: the entry point and the value of the latest call on a value
    instances,      \* several RemoteScanner objects side by side, and the module's built-in list
    probe           \* operands and values of the latest Severity / ScanResult use

vars == <<OFFLINE, BUNDLE_TTL, _patterns, heap, _compiled, _fetched_at, _min_sev,
          now, attempted, built, last, ret, pc, loc, failed_at, env, MIN_SEVERITY,
          phase, _default_scanner, made, caller, gate, arg, instances, probe>>

\* The module-level state a call of scan() on an instance leaves alone.
moduleVars == <<env, MIN_SEVERITY, phase, _default_scanner, made, caller, probe>>

-----------------------------------------------------------------------------
(* Bounds of the model *)

MaxClock == 6
MaxTTL == 2

None == "None"

-----------------------------------------------------------------------------
(* Pattern objects and JSON values *)

\* A JSON object of a bundle: `keys` are the keys it has; a field whose key
\* is absent holds a placeholder that is never read.
Obj(keys, id, severity, regex, category) ==
    [obj |-> TRUE, keys |-> keys, id |-> id, pattern_name |-> None,
     severity |-> severity, regex |-> regex, category |-> category,
     severity_enum |-> None]

Pat(id, severity, regex) == Obj({"id", "severity", "regex"}, id, severity, regex, None)

\* A bundle entry that is not an object (a JSON string).
NotObj ==
    [obj |-> FALSE, keys |-> {}, id |-> None, pattern_name |-> None,
     severity |-> None, regex |-> <<>>, category |-> None, severity_enum |-> None]

\* dict.get(key, default)
Get(d, key, default) == IF key \in d.keys THEN d[key] ELSE default

JList(items) == [t |-> "list", items |-> items]
JNull == [t |-> "null", items |-> <<>>]
JStr == [t |-> "str", items |-> <<>>]
JDict(haskey, val) == [t |-> "dict", has_patterns |-> haskey, patterns |-> val]

_BUILTIN_PATTERNS ==
    JList(<< Pat("aws_access_key_id", "Critical", <<"AKIA">>),
             Pat("openai_api_key", "Critical", <<"sk-">>),
             Pat("github_pat", "Critical", <<"ghp_">>),
             Pat("rsa_private_key", "Critical", <<"BEGIN RSA">>),
             Pat("generic_secret", "High", <<"secret=">>),
             Pat("sql_drop_table", "Critical", <<"DROP TABLE">>),
             Pat("sql_delete_no_where", "High", <<"DELETE FROM">>),
             Pat("sql_truncate", "High", <<"TRUNCATE">>),
             Pat("prompt_injection", "High", <<"jailbreak">>) >>)

-----------------------------------------------------------------------------
(* Severity *)

Severities == {"Warn", "High", "Critical"}

\* Severity._order()
_order(s) == CASE s = "Warn" -> 0 [] s = "High" -> 1 [] s = "Critical" -> 2

\* The place of the value of a member in the order of strings:
\* "Critical" < "High" < "Warn".
Lexical(s) == CASE s = "Critical" -> 0 [] s = "High" -> 1 [] s = "Warn" -> 2

\* A `>=` left to str, the other base of Severity: it compares the values.
SevGe_Lexical(a, b) == Lexical(a) >= Lexical(b)

\* Severity.__ge__
SevGe(a, b) == _order(a) >= _order(b)

\* a > b, a <= b, a < b: Severity defines none of __gt__, __le__, __lt__ and
\* Enum defines none, so they are those of str, on the values.
SevGt(a, b) == Lexical(a) > Lexical(b)
SevLe(a, b) == Lexical(a) <= Lexical(b)
SevLt(a, b) == Lexical(a) < Lexical(b)

-----------------------------------------------------------------------------
(* Regular expressions *)

\* re.compile(regex) raises re.error: the expression has an unterminated group.
ReError(regex) == \E i \in 1..Len(regex) : regex[i] = "("

\* pattern.search(text): the expression occurs somewhere in the text.
Search(regex, text) ==
    \E i \in 0..(Len(text) - Len(regex)) :
        \A j \in 1..Len(regex) : text[i + j] = regex[j]

-----------------------------------------------------------------------------
(* _load: the fetch *)

\* What httpx.get(...) can come back with.
Resp(kind, body) == [kind |-> kind, body |-> body]

\* The try block of _load raises: httpx.get raises ("transport": a transport
\* error, of which a timeout is one), raise_for_status raises (non-2xx), resp.json() raises (the body
\* is not JSON), or data.get raises AttributeError (the JSON value is
\* neither a list nor an object).
TryRaises(resp) ==
    \/ resp.kind # "json"
    \/ resp.body.t \notin {"list", "dict"}

\* data if isinstance(data, list) else data.get("patterns", [])
TryValue(resp) ==
    IF resp.body.t = "list" THEN resp.body
    ELSE IF resp.body.has_patterns THEN resp.body.patterns
    ELSE JList(<<>>)

\* Python's `not v`
Falsy(v) == v.t = "null" \/ (v.t = "list" /\ v.items = <<>>)

\* A handler that keeps whatever it has.
OnFetchException_NoFallback(patterns) == patterns

\* except Exception: if not self._patterns: self._patterns = _BUILTIN_PATTERNS
OnFetchException(patterns) ==
    IF Falsy(patterns) THEN _BUILTIN_PATTERNS ELSE patterns

\* self._patterns after the try statement, lines 94-105
AfterFetch(patterns, resp) ==
    IF TryRaises(resp) THEN OnFetchException(patterns) ELSE TryValue(resp)

\* A _load that asks the registry whatever OFFLINE says.
Install_NoOfflineCheck(patterns, offline, resp) ==
    [patterns |-> AfterFetch(patterns, resp),
     fetch |-> IF TryRaises(resp) THEN "fail" ELSE "ok"]

\* Lines 91-105: self._patterns afterwards, and whether a fetch was issued
\* ("none" offline) and raised in the try block ("fail") or not ("ok").
Install(patterns, offline, resp) ==
    IF offline
    THEN [patterns |-> _BUILTIN_PATTERNS, fetch |-> "none"]
    ELSE [patterns |-> AfterFetch(patterns, resp),
          fetch |-> IF TryRaises(resp) THEN "fail" ELSE "ok"]

-----------------------------------------------------------------------------
(* _load: the compile loop *)

\* `for p in self._patterns` raises TypeError: None is not iterable.
IterRaises(v) == v.t = "null"

\* The values `for p in self._patterns` yields: the items of a list, the
\* characters of a string (none of them an object).
IterItems(v) ==
    IF v.t = "list" THEN v.items
    ELSE IF v.t = "str" THEN <<NotObj>>
    ELSE <<>>

\* One turn of the loop body, lines 109-112: "append", "skip" (re.error is
\* caught), or the exception that leaves _load.
CompileOne_NoCatch(p) ==
    IF ~p.obj THEN "TypeError"
    ELSE IF "regex" \notin p.keys THEN "KeyError"
    ELSE IF ReError(p.regex) THEN "re.error"
    ELSE "append"

\* Lines 109-112 on the entry p: what the turn of the loop does.
CompileOne(p) ==
    IF ~p.obj THEN "TypeError"
    ELSE IF "regex" \notin p.keys THEN "KeyError"
    ELSE IF ReError(p.regex) THEN "skip"
    ELSE "append"

\* Lines 107-112 run from the start on `items`: the list built and the
\* exception (None if the loop ended).
RECURSIVE CompileAll(_, _)
CompileAll(items, acc) ==
    IF items = <<>> THEN [list |-> acc, exc |-> None]
    ELSE LET o == CompileOne(Head(items)) IN
         IF o = "append" THEN CompileAll(Tail(items), Append(acc, Head(items)))
         ELSE IF o = "skip" THEN CompileAll(Tail(items), acc)
         ELSE [list |-> acc, exc |-> o]

\* The whole of _load, run alone: the fields it leaves and the exception that
\* leaves it (None if it returned).  `fetch` is "none" offline, else whether
\* the try block raised.
Load(patterns, fetched_at, offline, resp, clock) ==
    LET i == Install(patterns, offline, resp)
        p == i.patterns
        f == i.fetch
        c == CompileAll(IterItems(p), <<>>)
    IN  IF IterRaises(p)
        THEN [patterns |-> p, list |-> <<>>, fetched_at |-> fetched_at,
              exc |-> "TypeError", fetch |-> f, done |-> FALSE]
        ELSE [patterns |-> p, list |-> c.list,
              fetched_at |-> IF c.exc = None THEN clock ELSE fetched_at,
              exc |-> c.exc, fetch |-> f, done |-> c.exc = None]

\* _needs_refresh
NeedsRefresh(clock, fetched_at, ttl) == clock - fetched_at > ttl

-----------------------------------------------------------------------------
(* scan: matching and reduction *)

\* One turn of the loop of lines 124-128 on matcher `meta`: "miss", "below"
\* the floor, "hit", or ValueError from Severity(...) on an unknown name.
MatchOne(meta, text, min_sev) ==
    IF ~Search(meta.regex, text) THEN "miss"
    ELSE LET s == Get(meta, "severity", "Warn") IN
         IF s \notin Severities THEN "ValueError"
         ELSE IF SevGe(s, min_sev) THEN "hit"
         ELSE "below"

\* {**meta, "severity_enum": sev}
HitOf(meta) ==
    [meta EXCEPT !.keys = @ \cup {"severity_enum"},
                 !.severity_enum = Get(meta, "severity", "Warn")]

\* Lines 123-128 over the list `ms`.
RECURSIVE Matching(_, _, _, _)
Matching(ms, text, min_sev, acc) ==
    IF ms = <<>> THEN [hits |-> acc, exc |-> None]
    ELSE LET o == MatchOne(Head(ms), text, min_sev) IN
         IF o = "ValueError" THEN [hits |-> acc, exc |-> o]
         ELSE IF o = "hit"
              THEN Matching(Tail(ms), text, min_sev, Append(acc, HitOf(Head(ms))))
              ELSE Matching(Tail(ms), text, min_sev, acc)

\* A sort that is not stable: h goes in front of the elements of its key.
RECURSIVE InsertDesc_Unstable(_, _)
InsertDesc_Unstable(sorted, h) ==
    IF sorted = <<>> THEN <<h>>
    ELSE IF _order(Head(sorted).severity_enum) > _order(h.severity_enum)
         THEN <<Head(sorted)>> \o InsertDesc_Unstable(Tail(sorted), h)
         ELSE <<h>> \o sorted

\* The place of h in a list sorted by descending key: behind every element
\* whose key is not smaller (list.sort is stable, also with reverse=True).
RECURSIVE InsertDesc(_, _)
InsertDesc(sorted, h) ==
    IF sorted = <<>> THEN <<h>>
    ELSE IF _order(Head(sorted).severity_enum) >= _order(h.severity_enum)
         THEN <<Head(sorted)>> \o InsertDesc(Tail(sorted), h)
         ELSE <<h>> \o sorted

\* hits.sort(key=lambda h: Severity._order()[h["severity_enum"].value], reverse=True)
RECURSIVE SortDesc(_)
SortDesc(hits) ==
    IF hits = <<>> THEN <<>>
    ELSE InsertDesc(SortDesc(SubSeq(hits, 1, Len(hits) - 1)), hits[Len(hits)])

\* top.get("id") or top.get("pattern_name")
PrimaryId(top) ==
    LET a == Get(top, "id", None) IN
    IF a # None /\ a # "" THEN a ELSE Get(top, "pattern_name", None)

ScanResult(hit, pattern, severity, category, all_hits) ==
    [kind |-> "result", exc |-> None, hit |-> hit, pattern |-> pattern,
     severity |-> severity, category |-> category, all_hits |-> all_hits]

Raised(exc) ==
    [kind |-> "raise", exc |-> exc, hit |-> FALSE, pattern |-> None,
     severity |-> None, category |-> None, all_hits |-> <<>>]

NoCall ==
    [kind |-> "none", exc |-> None, hit |-> FALSE, pattern |-> None,
     severity |-> None, category |-> None, all_hits |-> <<>>]

\* ScanResult.blocked
blocked(r) == r.hit /\ r.severity = "Critical"

\* A `warned` that is true of every hit.
warned_AnyHit(r) == r.hit

\* ScanResult.warned
warned(r) == r.hit /\ r.severity \in {"High", "Warn"}

\* A reduction that takes the first hit found as the primary, unsorted.
Reduce_FirstFound(hits) ==
    IF hits = <<>> THEN ScanResult(FALSE, None, None, None, <<>>)
    ELSE ScanResult(TRUE, PrimaryId(hits[1]), hits[1].severity_enum,
                    Get(hits[1], "category", None), SortDesc(hits))

\* Lines 130-142 on the hits collected.
Reduce(hits) ==
    IF hits = <<>> THEN ScanResult(FALSE, None, None, None, <<>>)
    ELSE LET sorted == SortDesc(hits)
             top == sorted[1]
         IN  ScanResult(TRUE, PrimaryId(top), top.severity_enum,
                        Get(top, "category", None), sorted)

\* A scan whose list of hits is shared between calls: it starts from the
\* hits of the call before.
MatchAndReduce_SharedHits(ms, text, min_sev) ==
    LET m == Matching(ms, text, min_sev, ret.all_hits) IN
    IF m.exc # None THEN Raised(m.exc) ELSE Reduce(m.hits)

\* Lines 123-142: what scan returns (or raises) matching `text` against `ms`.
MatchAndReduce(ms, text, min_sev) ==
    LET m == Matching(ms, text, min_sev, <<>>) IN
    IF m.exc # None THEN Raised(m.exc) ELSE Reduce(m.hits)

-----------------------------------------------------------------------------
(* Inputs *)

Texts ==
    { <<>>, <<"a">>, <<"a", "b">>, <<"x", "b">>,
      <<"AKIA">>, <<"secret=", "AKIA", "DROP TABLE">> }

GoodBundle ==
    JList(<< Pat("p_a", "High", <<"a">>), Pat("p_b", "Critical", <<"b">>) >>)

\* An object with a `patterns` field; its entries use every optional key.
DictBundle ==
    JDict(TRUE,
          JList(<< Pat("w", "Warn", <<"a">>),
                   Obj({"id", "severity", "regex", "category"},
                       "h1", "High", <<"a">>, "secrets"),
                   Pat("c", "Critical", <<"b">>),
                   [Obj({"pattern_name", "regex"}, None, None, <<"a", "b">>, None)
                       EXCEPT !.pattern_name = "named"],
                   Pat("h2", "High", <<"b">>) >>))

\* The second entry's regex does not compile.
BadRegexBundle ==
    JList(<< Pat("p_x", "High", <<"x">>), Pat("p_bad", "Critical", <<"(", "a">>),
             Pat("p_b", "Critical", <<"b">>) >>)

\* The second entry has no `regex` field, the third is not an object.
MalformedBundle ==
    JList(<< Pat("p_a", "High", <<"a">>),
             Obj({"id", "severity"}, "p_noregex", "High", <<>>, None),
             NotObj >>)

UnknownSeverityBundle ==
    JList(<< Pat("p_m", "Medium", <<"a">>), Pat("p_b", "Critical", <<"b">>) >>)

\* The first and the third entry have the same id.
DuplicateIdBundle ==
    JList(<< Pat("p_d", "High", <<"a">>), Pat("p_b", "Critical", <<"b">>),
             Pat("p_d", "Critical", <<"a">>) >>)

Responses ==
    { Resp("transport", JNull), Resp("status", JNull), Resp("notjson", JNull),
      Resp("json", JStr),
      Resp("json", GoodBundle), Resp("json", DictBundle),
      Resp("json", JList(<<>>)), Resp("json", JDict(FALSE, JNull)),
      Resp("json", JDict(TRUE, JNull)),
      Resp("json", BadRegexBundle), Resp("json", MalformedBundle),
      Resp("json", UnknownSeverityBundle), Resp("json", DuplicateIdBundle) }

Threads == {1, 2}

\* Names of list objects: one for self._compiled and one for each iterator
\* a thread may still hold on a list since replaced.
ObjIds == 0..Cardinality(Threads)

\* The locals of a call: the text, what its _load did, the rest of the
\* iteration of line 108, the list iterator of line 124 (the list it is on
\* and how many items it has yielded), the matchers yielded, the hits.
IdleLoc ==
    [text |-> <<>>, refreshed |-> FALSE, first |-> FALSE, fetch |-> "none",
     todo |-> <<>>, it |-> 0, idx |-> 0, seen |-> <<>>, hits |-> <<>>,
     result |-> NoCall]

\* The threads that call scanner().
Callers == {1, 2, 3}

\* A caller outside scanner(): `got` is the instance its latest call returned.
IdleCaller == [pc |-> "idle", got |-> None]

\* The argument of scan / scan_json: a str, or a dict or list of strings
\* (`items`: the strings in it, in order); `ok` is false when the dict or
\* list also holds a value json cannot encode (bytes, a set).
Str(text) == [t |-> "str", text |-> text, items |-> <<>>, ok |-> TRUE]
Dict(items, ok) == [t |-> "dict", text |-> <<>>, items |-> items, ok |-> ok]
List(items, ok) == [t |-> "list", text |-> <<>>, items |-> items, ok |-> ok]

\* No value has been passed to scan / scan_json.
NoArg == [entry |-> None, v |-> Str(<<>>)]

\* The scanners of a process: the default one (scanner(), lines 151-156) and
\* two the application constructed itself.
Scanners == {"default", "private1", "private2"}

\* The fields __init__ gives an instance (lines 81-85), with its history.
NewScanner ==
    [patterns |-> JList(<<>>), list |-> <<>>, fetched_at |-> 0,
     attempted |-> FALSE, built |-> FALSE, failed_at |-> -1, loaded_at |-> -1]

\* The instances just constructed, the module-level list of lines 28-38, and
\* no call yet.
NoCalls ==
    [of |-> [k \in Scanners |-> NewScanner], builtin |-> _BUILTIN_PATTERNS,
     who |-> None, text |-> <<>>, refreshed |-> FALSE, ret |-> NoCall]

\* No adapter has been called.
NoGate == [adapter |-> None, trace |-> <<>>, out |-> None]

\* No Severity has been compared, no ScanResult has been constructed.
NoProbe ==
    [a |-> None, b |-> None, c |-> None, ge |-> <<>>,
     gt |-> FALSE, le |-> FALSE, lt |-> FALSE,
     result |-> NoCall, by |-> None, blocked |-> FALSE, warned |-> FALSE]

\* The module just imported and the history variables before any call.
ModuleInit ==
    /\ _default_scanner = None
    /\ made = 0
    /\ caller = [t \in Callers |-> IdleCaller]
    /\ gate = NoGate
    /\ arg = NoArg
    /\ instances = NoCalls
    /\ probe = NoProbe
    /\ failed_at = -1

-----------------------------------------------------------------------------
(* The scanner, called by one caller at a time *)

\* RemoteScanner.__init__, with the module constants the environment gives.
Init ==
    /\ OFFLINE \in BOOLEAN
    /\ BUNDLE_TTL \in 1..MaxTTL
    /\ MIN_SEVERITY \in Severities
    /\ env = [offline |-> OFFLINE, ttl |-> BUNDLE_TTL, min_sev |-> MIN_SEVERITY]
    /\ phase = "constructed"
    /\ ModuleInit
    /\ _min_sev = MIN_SEVERITY
    /\ now = 0
    /\ _patterns = JList(<<>>)
    /\ heap = [o \in ObjIds |-> <<>>]
    /\ _compiled = 0
    /\ _fetched_at = 0
    /\ attempted = FALSE
    /\ built = FALSE
    /\ last = [text |-> <<>>, refreshed |-> FALSE, first |-> FALSE, fetch |-> "none",
               loaded_at |-> -1]
    /\ ret = NoCall
    /\ pc = [t \in Threads |-> "idle"]
    /\ loc = [t \in Threads |-> IdleLoc]

\* The list object `[]` of line 107 gets a name no iterator still refers to.
FreshId ==
    CHOOSE o \in ObjIds :
        /\ \A t \in Threads : pc[t] = "match" => loc[t].it # o
        /\ \A q \in ObjIds :
               (\A t \in Threads : pc[t] = "match" => loc[t].it # q) => o <= q

\* The clock advances between calls.
Tick ==
    /\ now < MaxClock
    /\ now' = now + 1
    /\ UNCHANGED <<moduleVars, gate, arg, instances, failed_at, OFFLINE, BUNDLE_TTL, _patterns, heap, _compiled, _fetched_at,
                   _min_sev, attempted, built, last, ret, pc, loc>>

\* The fields of the instance, and the history kept of it.
Self ==
    [patterns |-> _patterns, list |-> heap[_compiled], fetched_at |-> _fetched_at,
     attempted |-> attempted, built |-> built, failed_at |-> failed_at,
     loaded_at |-> last.loaded_at]

\* What scan(text) does, from call to return, to an instance whose fields
\* are `i`, the registry answering `resp` if asked: the new values of the
\* fields and of the history, and whether self._compiled was given a new list.
ScanFrom(i, text, resp) ==
    IF NeedsRefresh(now, i.fetched_at, BUNDLE_TTL)
    THEN LET L == Load(i.patterns, i.fetched_at, OFFLINE, resp, now) IN
         [patterns |-> L.patterns, swapped |-> TRUE, list |-> L.list,
          fetched_at |-> L.fetched_at, attempted |-> TRUE, loaded_at |-> now,
          built |-> (i.built \/ L.done),
          failed_at |-> IF L.fetch = "fail" /\ i.built THEN now
                        ELSE IF L.fetch = "ok" THEN -1 ELSE i.failed_at,
          last |-> [text |-> text, refreshed |-> TRUE, first |-> ~i.attempted,
                    fetch |-> L.fetch, loaded_at |-> now],
          ret |-> IF L.exc # None THEN Raised(L.exc)
                  ELSE MatchAndReduce(L.list, text, _min_sev)]
    ELSE [patterns |-> i.patterns, swapped |-> FALSE, list |-> i.list,
          fetched_at |-> i.fetched_at, attempted |-> i.attempted,
          loaded_at |-> i.loaded_at,
          built |-> i.built, failed_at |-> i.failed_at,
          last |-> [text |-> text, refreshed |-> FALSE, first |-> FALSE,
                    fetch |-> "none", loaded_at |-> i.loaded_at],
          ret |-> MatchAndReduce(i.list, text, _min_sev)]

\* scan(text) on the instance as it is.
ScanOutcome(text, resp) == ScanFrom(Self, text, resp)

\* The instance takes the values `o`.
Becomes(o) ==
    /\ \A t \in Threads : pc[t] = "idle"
    /\ phase = "constructed"
    /\ _patterns' = o.patterns
    /\ _compiled' = IF o.swapped THEN FreshId ELSE _compiled
    /\ heap' = IF o.swapped
               THEN [q \in ObjIds |-> IF q = FreshId THEN o.list ELSE <<>>]
               ELSE heap
    /\ _fetched_at' = o.fetched_at
    /\ attempted' = o.attempted
    /\ built' = o.built
    /\ failed_at' = o.failed_at
    /\ last' = o.last
    /\ ret' = o.ret
    /\ UNCHANGED <<moduleVars, OFFLINE, BUNDLE_TTL, _min_sev, now, pc, loc>>

\* scan(text) from call to return.
Scan(text, resp) == Becomes(ScanOutcome(text, resp))

\* The registry is asked only by a refresh that is not offline.
ScanCall ==
    \E text \in Texts :
        /\ IF NeedsRefresh(now, _fetched_at, BUNDLE_TTL) /\ ~OFFLINE
           THEN \E resp \in Responses : Scan(text, resp)
           ELSE Scan(text, Resp("transport", JNull))
        /\ UNCHANGED <<gate, arg, instances>>

Next == Tick \/ ScanCall

Spec == Init /\ [][Next]_vars

-----------------------------------------------------------------------------
(* The scanner, called from several threads: scan() and _load() statement  *)
(* by statement.  The interpreter switches threads between statements.     *)

ConcTexts == { <<"a">>, <<"a", "b">> }

NextBundle == JList(<< Pat("p_ab", "Critical", <<"a", "b">>) >>)

ConcResponses ==
    { Resp("transport", JNull), Resp("json", GoodBundle), Resp("json", NextBundle) }

\* A scanner whose first scan("a"), called when the clock read MaxClock - 3,
\* fetched GoodBundle; the clock has advanced by one since.
InitConc ==
    /\ OFFLINE = FALSE
    /\ BUNDLE_TTL = 1
    /\ MIN_SEVERITY = "High"
    /\ env = [offline |-> FALSE, ttl |-> 1, min_sev |-> "High"]
    /\ phase = "constructed"
    /\ ModuleInit
    /\ _min_sev = "High"
    /\ now = MaxClock - 2
    /\ _patterns = GoodBundle
    /\ heap = [o \in ObjIds |-> IF o = 0 THEN GoodBundle.items ELSE <<>>]
    /\ _compiled = 0
    /\ _fetched_at = MaxClock - 3
    /\ attempted = TRUE
    /\ built = TRUE
    /\ last = [text |-> <<"a">>, refreshed |-> TRUE, first |-> TRUE, fetch |-> "ok",
               loaded_at |-> MaxClock - 3]
    /\ ret = MatchAndReduce(GoodBundle.items, <<"a">>, "High")
    /\ pc = [t \in Threads |-> "idle"]
    /\ loc = [t \in Threads |-> IdleLoc]

\* Line 117: scan(text) is called and evaluates self._needs_refresh().
Call(t, text) ==
    /\ pc[t] = "idle"
    /\ LET needs == NeedsRefresh(now, _fetched_at, BUNDLE_TTL) IN
       /\ pc' = [pc EXCEPT ![t] = IF needs THEN "load" ELSE "iter"]
       /\ loc' = [loc EXCEPT ![t] = [IdleLoc EXCEPT !.text = text, !.refreshed = needs]]
    /\ UNCHANGED <<moduleVars, gate, arg, instances, failed_at, OFFLINE, BUNDLE_TTL, _patterns, heap, _compiled, _fetched_at,
                   _min_sev, now, attempted, built, last, ret>>

\* Lines 91-99: _load is entered; offline it installs the built-in list,
\* otherwise it issues the GET and waits for the answer.
LoadStart(t) ==
    /\ pc[t] = "load"
    /\ attempted' = TRUE
    /\ loc' = [loc EXCEPT ![t].first = ~attempted]
    /\ IF OFFLINE
       THEN /\ _patterns' = Install(_patterns, TRUE, Resp("transport", JNull)).patterns
            /\ pc' = [pc EXCEPT ![t] = "clear"]
       ELSE /\ pc' = [pc EXCEPT ![t] = "fetch"]
            /\ UNCHANGED _patterns
    /\ UNCHANGED <<moduleVars, gate, arg, instances, failed_at, OFFLINE, BUNDLE_TTL, heap, _compiled, _fetched_at, _min_sev, now,
                   built, last, ret>>

\* Lines 95-105: the GET returns or raises; self._patterns is assigned.
FetchReturn(t, resp) ==
    /\ pc[t] = "fetch"
    /\ LET i == Install(_patterns, FALSE, resp) IN
       /\ _patterns' = i.patterns
       /\ loc' = [loc EXCEPT ![t].fetch = i.fetch]
       /\ failed_at' = IF i.fetch = "fail" /\ built THEN now
                       ELSE IF i.fetch = "ok" THEN -1 ELSE failed_at
    /\ pc' = [pc EXCEPT ![t] = "clear"]
    /\ UNCHANGED <<moduleVars, gate, arg, instances, OFFLINE, BUNDLE_TTL, heap, _compiled, _fetched_at, _min_sev, now,
                   attempted, built, last, ret>>

\* Line 107: self._compiled = []
Clear(t) ==
    /\ pc[t] = "clear"
    /\ _compiled' = FreshId
    /\ heap' = [o \in ObjIds |->
                  IF o = FreshId THEN <<>>
                  ELSE IF \E u \in Threads : pc[u] = "match" /\ loc[u].it = o
                       THEN heap[o] ELSE <<>>]
    /\ pc' = [pc EXCEPT ![t] = "for"]
    /\ UNCHANGED <<moduleVars, gate, arg, instances, failed_at, OFFLINE, BUNDLE_TTL, _patterns, _fetched_at, _min_sev, now,
                   attempted, built, last, ret, loc>>

\* The call of t ends: raising `r` or returning it.
Leave(t, r) ==
    /\ pc' = [pc EXCEPT ![t] = "return"]
    /\ loc' = [loc EXCEPT ![t].result = r]

\* Line 108: the iteration over self._patterns starts.
For(t) ==
    /\ pc[t] = "for"
    /\ IF IterRaises(_patterns)
       THEN Leave(t, Raised("TypeError"))
       ELSE /\ pc' = [pc EXCEPT ![t] = "compile"]
            /\ loc' = [loc EXCEPT ![t].todo = IterItems(_patterns)]
    /\ UNCHANGED <<moduleVars, gate, arg, instances, failed_at, OFFLINE, BUNDLE_TTL, _patterns, heap, _compiled, _fetched_at,
                   _min_sev, now, attempted, built, last, ret>>

\* Lines 108-112: one turn of the loop, appending to the list self._compiled
\* refers to at that moment; or the loop ends.
CompileStep(t) ==
    /\ pc[t] = "compile"
    /\ IF loc[t].todo = <<>>
       THEN /\ pc' = [pc EXCEPT ![t] = "stamp"]
            /\ UNCHANGED <<heap, loc>>
       ELSE LET p == Head(loc[t].todo)
                o == CompileOne(p)
            IN  IF o \in {"append", "skip"}
                THEN /\ heap' = IF o = "append"
                                THEN [heap EXCEPT ![_compiled] = Append(@, p)]
                                ELSE heap
                     /\ loc' = [loc EXCEPT ![t].todo = Tail(@)]
                     /\ UNCHANGED pc
                ELSE /\ Leave(t, Raised(o))
                     /\ UNCHANGED heap
    /\ UNCHANGED <<moduleVars, gate, arg, instances, failed_at, OFFLINE, BUNDLE_TTL, _patterns, _compiled, _fetched_at, _min_sev,
                   now, attempted, built, last, ret>>

\* Line 113: self._fetched_at = time.monotonic()
Stamp(t) ==
    /\ pc[t] = "stamp"
    /\ _fetched_at' = now
    /\ built' = TRUE
    /\ pc' = [pc EXCEPT ![t] = "iter"]
    /\ UNCHANGED <<moduleVars, gate, arg, instances, failed_at, OFFLINE, BUNDLE_TTL, _patterns, heap, _compiled, _min_sev, now,
                   attempted, last, ret, loc>>

\* Line 124: the iteration over the list self._compiled refers to starts.
Iter(t) ==
    /\ pc[t] = "iter"
    /\ pc' = [pc EXCEPT ![t] = "match"]
    /\ loc' = [loc EXCEPT ![t].it = _compiled, ![t].idx = 0]
    /\ UNCHANGED <<moduleVars, gate, arg, instances, failed_at, OFFLINE, BUNDLE_TTL, _patterns, heap, _compiled, _fetched_at,
                   _min_sev, now, attempted, built, last, ret>>

\* Lines 124-142: one turn of the matching loop on the next item of the
\* list iterated; when the list has no further item, the reduction.
MatchStep(t) ==
    /\ pc[t] = "match"
    /\ IF loc[t].idx < Len(heap[loc[t].it])
       THEN LET m == heap[loc[t].it][loc[t].idx + 1]
                o == MatchOne(m, loc[t].text, _min_sev)
            IN  IF o = "ValueError"
                THEN Leave(t, Raised(o))
                ELSE /\ loc' = [loc EXCEPT ![t].idx = @ + 1,
                                           ![t].seen = Append(@, m),
                                           ![t].hits = IF o = "hit"
                                                       THEN Append(@, HitOf(m)) ELSE @]
                     /\ UNCHANGED pc
       ELSE Leave(t, Reduce(loc[t].hits))
    /\ UNCHANGED <<moduleVars, gate, arg, instances, failed_at, OFFLINE, BUNDLE_TTL, _patterns, heap, _compiled, _fetched_at,
                   _min_sev, now, attempted, built, last, ret>>

\* The caller has the result (or the exception); the locals are dropped.
Return(t) ==
    /\ pc[t] = "return"
    /\ ret' = loc[t].result
    /\ last' = [text |-> loc[t].text, refreshed |-> loc[t].refreshed,
                first |-> loc[t].first, fetch |-> loc[t].fetch,
                loaded_at |-> IF loc[t].refreshed THEN now ELSE last.loaded_at]
    /\ pc' = [pc EXCEPT ![t] = "idle"]
    /\ loc' = [loc EXCEPT ![t] = IdleLoc]
    /\ UNCHANGED <<moduleVars, gate, arg, instances, failed_at, OFFLINE, BUNDLE_TTL, _patterns, heap, _compiled, _fetched_at,
                   _min_sev, now, attempted, built>>

ThreadStep(t) ==
    \/ \E text \in ConcTexts : Call(t, text)
    \/ LoadStart(t)
    \/ \E resp \in ConcResponses : FetchReturn(t, resp)
    \/ Clear(t)
    \/ For(t)
    \/ CompileStep(t)
    \/ Stamp(t)
    \/ Iter(t)
    \/ MatchStep(t)
    \/ Return(t)

NextConc == Tick \/ \E t \in Threads : ThreadStep(t)

SpecConc == InitConc /\ [][NextConc]_vars

-----------------------------------------------------------------------------
(* The value types: Severity and ScanResult, used on their own *)

\* ScanResult(hit=..., severity=...) as a caller or a test constructs it.
Constructed ==
    { ScanResult(hit, None, sev, None, <<>>) :
        hit \in BOOLEAN, sev \in Severities \cup {None} }

\* What scan() returns for the texts, on the lists the bundles compile to.
Returned ==
    { r \in { MatchAndReduce(ms, text, sev) :
                ms \in {<<>>, GoodBundle.items, DictBundle.patterns.items,
                       _BUILTIN_PATTERNS.items},
                text \in Texts, sev \in Severities } : r.kind = "result" }

\* a >= b, b >= a, b >= c, a >= c and a >= a are evaluated, and a > b,
\* a <= b, a < b.
Compare(a, b, c) ==
    /\ probe' = [probe EXCEPT !.a = a, !.b = b, !.c = c,
                              !.gt = SevGt(a, b), !.le = SevLe(a, b),
                              !.lt = SevLt(a, b),
                              !.ge = [ab |-> SevGe(a, b), ba |-> SevGe(b, a),
                                      bc |-> SevGe(b, c), ac |-> SevGe(a, c),
                                      aa |-> SevGe(a, a)]]
    /\ UNCHANGED <<OFFLINE, BUNDLE_TTL, _patterns, heap, _compiled, _fetched_at,
                   _min_sev, now, attempted, built, last, ret, pc, loc, failed_at,
                   env, MIN_SEVERITY, phase, _default_scanner, made, caller, gate, arg, instances>>

\* The properties blocked and warned of the result `r` are read.
Verdicts(r, by) ==
    /\ probe' = [probe EXCEPT !.result = r, !.by = by,
                              !.blocked = blocked(r), !.warned = warned(r)]
    /\ UNCHANGED <<OFFLINE, BUNDLE_TTL, _patterns, heap, _compiled, _fetched_at,
                   _min_sev, now, attempted, built, last, ret, pc, loc, failed_at,
                   env, MIN_SEVERITY, phase, _default_scanner, made, caller, gate, arg, instances>>

NextTypes ==
    \/ \E a, b, c \in Severities : Compare(a, b, c)
    \/ \E r \in Constructed : Verdicts(r, "constructed")
    \/ \E r \in Returned : Verdicts(r, "scan")

SpecTypes == Init /\ [][NextTypes]_vars

-----------------------------------------------------------------------------
(* scanner(): the default instance, asked for from several threads *)

\* The RemoteScanner objects, in the order of their construction.
Instances == <<"scanner1", "scanner2", "scanner3">>

\* Line 155: scanner() is called and evaluates `_default_scanner is None`.
Test(t) ==
    /\ caller[t].pc = "idle"
    /\ caller' = [caller EXCEPT ![t].pc = IF _default_scanner = None
                                          THEN "construct" ELSE "return"]
    /\ UNCHANGED <<_default_scanner, made>>

\* Line 156: _default_scanner = RemoteScanner()
Assign(t) ==
    /\ caller[t].pc = "construct"
    /\ made' = made + 1
    /\ _default_scanner' = Instances[made + 1]
    /\ caller' = [caller EXCEPT ![t].pc = "return"]

\* Line 157: return _default_scanner
ReturnDefault(t) ==
    /\ caller[t].pc = "return"
    /\ caller' = [caller EXCEPT ![t] = [pc |-> "idle", got |-> _default_scanner]]
    /\ UNCHANGED <<_default_scanner, made>>

CallerStep(t) ==
    /\ Test(t) \/ Assign(t) \/ ReturnDefault(t)
    /\ UNCHANGED <<OFFLINE, BUNDLE_TTL, _patterns, heap, _compiled, _fetched_at,
                   _min_sev, now, attempted, built, last, ret, pc, loc, failed_at,
                   env, MIN_SEVERITY, phase, gate, arg, instances, probe>>

NextDefault == \E t \in Callers : CallerStep(t)

SpecDefault == Init /\ [][NextDefault]_vars

-----------------------------------------------------------------------------
(* Configuration: the module is imported, the environment is changed, a    *)
(* RemoteScanner is constructed and used                                   *)

\* The values SIGIL_OFFLINE, SIGIL_BUNDLE_TTL and SIGIL_MIN_SEVERITY can have.
Envs == [offline : BOOLEAN, ttl : 1..MaxTTL, min_sev : Severities]

\* Lines 20-25: the import reads the environment into the module constants.
\* There is no RemoteScanner yet.
InitConfig ==
    /\ env \in Envs
    /\ OFFLINE = env.offline
    /\ BUNDLE_TTL = env.ttl
    /\ MIN_SEVERITY = env.min_sev
    /\ phase = "imported"
    /\ ModuleInit
    /\ _min_sev = None
    /\ now = 0
    /\ _patterns = JList(<<>>)
    /\ heap = [o \in ObjIds |-> <<>>]
    /\ _compiled = 0
    /\ _fetched_at = 0
    /\ attempted = FALSE
    /\ built = FALSE
    /\ last = [text |-> <<>>, refreshed |-> FALSE, first |-> FALSE, fetch |-> "none",
               loaded_at |-> -1]
    /\ ret = NoCall
    /\ pc = [t \in Threads |-> "idle"]
    /\ loc = [t \in Threads |-> IdleLoc]

\* The application (or a test) sets the environment after the import.
SetEnv(e) ==
    /\ phase = "imported"
    /\ e # env
    /\ env' = e
    /\ UNCHANGED <<OFFLINE, BUNDLE_TTL, _patterns, heap, _compiled, _fetched_at,
                   _min_sev, now, attempted, built, last, ret, pc, loc, failed_at,
                   MIN_SEVERITY, phase, _default_scanner, made, caller, gate, arg, instances, probe>>

\* RemoteScanner.__init__
Construct ==
    /\ phase = "imported"
    /\ phase' = "constructed"
    /\ _patterns' = JList(<<>>)
    /\ _compiled' = FreshId
    /\ heap' = [o \in ObjIds |-> <<>>]
    /\ _fetched_at' = 0
    /\ _min_sev' = MIN_SEVERITY
    /\ UNCHANGED <<OFFLINE, BUNDLE_TTL, now, attempted, built, last, ret, pc, loc,
                   failed_at, env, MIN_SEVERITY, _default_scanner, made, caller,
                   gate, arg, instances, probe>>

ConfigTexts == { <<"a">>, <<"AKIA">> }

ConfigResponses == { Resp("transport", JNull), Resp("json", GoodBundle) }

\* scan(text) on the instance constructed.
ConfigScan ==
    \E text \in ConfigTexts :
        /\ IF NeedsRefresh(now, _fetched_at, BUNDLE_TTL) /\ ~OFFLINE
           THEN \E resp \in ConfigResponses : Scan(text, resp)
           ELSE Scan(text, Resp("transport", JNull))
        /\ UNCHANGED <<gate, arg, instances>>

NextConfig == (\E e \in Envs : SetEnv(e)) \/ Construct \/ Tick \/ ConfigScan

SpecConfig == InitConfig /\ [][NextConfig]_vars

-----------------------------------------------------------------------------
(* The adapters that gate a call on a scan of its arguments.  `trace` is   *)
(* what an adapter call did, in order: "scan" (scanner().scan(payload)),   *)
(* "log" (logger.warning / logger.error), "call" (the wrapped function,    *)
(* tool or next handler is invoked); `out` is how it ended.                *)

Adapters ==
    { "sigil_function", "SigilProxy", "sigil_gate", "sigil_tool._run",
      "sigil_tool._arun", "sigil_tool._arun without original_arun",
      "on_tool_call" }

\* json.dumps({... args ...}): the arguments inside a JSON object.
Payload(text) == <<"{">> \o text \o <<"}">>

\* The adapters that log a warned result / a blocked one.
LogsWarned == { "sigil_function", "SigilProxy", "on_tool_call" }
LogsBlocked == { "SigilProxy", "on_tool_call" }

\* How the adapter refuses the call.
Refusal(a) ==
    CASE a = "sigil_function" -> "raise RuntimeError"
      [] a = "SigilProxy" -> "dict"
      [] a = "sigil_gate" -> "str"
      [] a = "on_tool_call" -> "dict isError"
      [] OTHER -> "raise ValueError"

\* An adapter that refuses every hit.
AfterScan_BlockOnHit(a, r) ==
    IF r.kind = "raise" THEN [trace |-> <<>>, out |-> "raise"]
    ELSE IF r.hit
         THEN [trace |-> IF a \in LogsBlocked THEN <<"log">> ELSE <<>>,
               out |-> Refusal(a)]
         ELSE [trace |-> IF a = "SigilProxy" THEN <<>> ELSE <<"call">>,
               out |-> IF a = "SigilProxy" THEN "None" ELSE "value"]

\* What the adapter does after scanner().scan(payload) returned r (or
\* raised): the exception leaves the adapter; a blocked result is refused;
\* otherwise the wrapped callable is invoked (SigilProxy returns None).
AfterScan(a, r) ==
    IF r.kind = "raise" THEN [trace |-> <<>>, out |-> "raise"]
    ELSE IF blocked(r)
         THEN [trace |-> IF a \in LogsBlocked THEN <<"log">> ELSE <<>>,
               out |-> Refusal(a)]
         ELSE [trace |-> (IF warned(r) /\ a \in LogsWarned THEN <<"log">> ELSE <<>>)
                           \o (IF a = "SigilProxy" THEN <<>> ELSE <<"call">>),
               out |-> IF a = "SigilProxy" THEN "None" ELSE "value"]

\* langchain.py:103-113 when the class had no _arun: after a scan that does
\* not block, _guarded_run is called, which scans again.
ScansTwice(a, r) ==
    /\ a = "sigil_tool._arun without original_arun"
    /\ r.kind = "result"
    /\ ~blocked(r)

\* The adapter `a` is called with arguments `text`.  The second scan of
\* ScansTwice is made at the same reading of the clock as the first.
GateCall(a, text, resp) ==
    LET p == Payload(text)
        o1 == ScanFrom(Self, p, resp)
        o2 == ScanFrom(o1, p, resp)
    IN  IF ScansTwice(a, o1.ret)
        THEN /\ Becomes([o2 EXCEPT !.swapped = o1.swapped \/ o2.swapped])
             /\ gate' = [adapter |-> a,
                         trace |-> <<"scan", "scan">> \o AfterScan("sigil_tool._run", o2.ret).trace,
                         out |-> AfterScan("sigil_tool._run", o2.ret).out]
        ELSE /\ Becomes(o1)
             /\ gate' = [adapter |-> a,
                         trace |-> <<"scan">> \o AfterScan(a, o1.ret).trace,
                         out |-> AfterScan(a, o1.ret).out]

GateTexts == { <<"a">>, <<"b">>, <<"x">> }

GateResponses ==
    { Resp("transport", JNull), Resp("json", GoodBundle),
      Resp("json", UnknownSeverityBundle) }

AdapterCall ==
    \E a \in Adapters : \E text \in GateTexts :
        /\ IF NeedsRefresh(now, _fetched_at, BUNDLE_TTL) /\ ~OFFLINE
           THEN \E resp \in GateResponses : GateCall(a, text, resp)
           ELSE GateCall(a, text, Resp("transport", JNull))
        /\ UNCHANGED <<arg, instances>>

NextGate == Tick \/ AdapterCall

SpecGate == Init /\ [][NextGate]_vars

-----------------------------------------------------------------------------
(* scan() and scan_json() on values that are not text *)

\* json.dumps of the characters of a string: a double quote gets a backslash.
RECURSIVE Escape(_)
Escape(text) ==
    IF text = <<>> THEN <<>>
    ELSE (IF Head(text) = "\"" THEN <<"\\", "\"">> ELSE <<Head(text)>>)
             \o Escape(Tail(text))

\* json.dumps of the strings of a dict or list, each between double quotes.
RECURSIVE DumpItems(_)
DumpItems(items) ==
    IF items = <<>> THEN <<>>
    ELSE <<"\"">> \o Escape(Head(items)) \o <<"\"">> \o DumpItems(Tail(items))

\* json.dumps(v) raises TypeError.
DumpsRaises(v) == ~v.ok

\* json.dumps(v)
JsonDumps(v) ==
    IF v.t = "dict" THEN <<"{">> \o DumpItems(v.items) \o <<"}">>
    ELSE IF v.t = "list" THEN <<"[">> \o DumpItems(v.items) \o <<"]">>
    ELSE <<"\"">> \o Escape(v.text) \o <<"\"">>

\* A scan that serializes a dict only: pattern.search raises TypeError on
\* a list.
Normalize_DictOnly(v) ==
    IF v.t = "dict"
    THEN IF DumpsRaises(v) THEN [text |-> <<>>, exc |-> "TypeError"]
         ELSE [text |-> JsonDumps(v), exc |-> None]
    ELSE IF v.t = "list" THEN [text |-> <<>>, exc |-> "TypeError"]
    ELSE [text |-> v.text, exc |-> None]

\* Lines 120-121: the text matched, or the exception json.dumps raises.
Normalize(v) ==
    IF v.t \in {"dict", "list"}
    THEN IF DumpsRaises(v) THEN [text |-> <<>>, exc |-> "TypeError"]
         ELSE [text |-> JsonDumps(v), exc |-> None]
    ELSE [text |-> v.text, exc |-> None]

\* scan(v): lines 117-118 first; then line 121 may raise, unless _load did.
ScanValue(v, resp) ==
    LET n == Normalize(v)
        o == ScanFrom(Self, n.text, resp)
    IN  IF n.exc # None /\ ~(o.ret.kind = "raise" /\ o.ret.exc \in {"KeyError", "TypeError"})
        THEN [o EXCEPT !.ret = Raised(n.exc)]
        ELSE o

\* scan_json(v), line 145: json.dumps(v) first, then scan of the string.
ScanJson(v, resp) ==
    IF DumpsRaises(v)
    THEN [Self EXCEPT !.failed_at = failed_at] @@
         [swapped |-> FALSE,
          last |-> [text |-> <<>>, refreshed |-> FALSE, first |-> FALSE,
                    fetch |-> "none", loaded_at |-> last.loaded_at],
          ret |-> Raised("TypeError")]
    ELSE ScanFrom(Self, JsonDumps(v), resp)

Entries == {"scan", "scan_json"}

\* The entry point `entry` is called with the value v.
Enter(entry, v, resp) ==
    /\ arg' = [entry |-> entry, v |-> v]
    /\ Becomes(IF entry = "scan" THEN ScanValue(v, resp) ELSE ScanJson(v, resp))

Structured ==
    { Dict(<< <<"a">> >>, TRUE), List(<< <<"a">>, <<"b">> >>, TRUE),
      Dict(<< <<"\"", "a">> >>, TRUE), List(<<>>, TRUE),
      Dict(<< <<"a">> >>, FALSE) }

Values == { Str(<<"a">>), Str(<<"x", "b">>) } \cup Structured

\* Patterns on the characters json.dumps adds: a quote before a, an escaped
\* quote.
QuoteBundle ==
    JList(<< Pat("p_qa", "High", <<"\"", "a">>), Pat("p_b", "Critical", <<"b">>),
             Pat("p_esc", "Critical", <<"\\", "\"">>) >>)

InputResponses ==
    { Resp("transport", JNull), Resp("json", QuoteBundle),
      Resp("json", MalformedBundle) }

InputCall ==
    \E entry \in Entries : \E v \in Values :
        /\ IF NeedsRefresh(now, _fetched_at, BUNDLE_TTL) /\ ~OFFLINE
           THEN \E resp \in InputResponses : Enter(entry, v, resp)
           ELSE Enter(entry, v, Resp("transport", JNull))
        /\ UNCHANGED <<gate, instances>>

NextInput == Tick \/ InputCall

SpecInput == Init /\ [][NextInput]_vars

-----------------------------------------------------------------------------
(* Several instances in one process *)

\* The fields among the values scan() leaves.
Fields(o) ==
    [patterns |-> o.patterns, list |-> o.list, fetched_at |-> o.fetched_at,
     attempted |-> o.attempted, built |-> o.built, failed_at |-> o.failed_at,
     loaded_at |-> o.loaded_at]

\* A class that keeps the cache in class attributes: every instance sees the
\* values the call leaves.
Store_OnClass(w, k, o) ==
    [w EXCEPT !.of = [j \in Scanners |-> Fields(o)]]

\* The assignments of _load and scan go to attributes of `self` (lines 92,
\* 102, 104, 107, 110, 113): the instance k takes the values, and nothing is
\* written through self._patterns, which may be the module's built-in list
\* itself (lines 92, 104).
Store(w, k, o) ==
    [w EXCEPT !.of[k] = Fields(o)]

\* scan(text) on the instance k, from call to return.
ScanOn(k, text, resp) ==
    LET o == ScanFrom(instances.of[k], text, resp) IN
    /\ \A t \in Threads : pc[t] = "idle"
    /\ phase = "constructed"
    /\ instances' = [Store(instances, k, o) EXCEPT
                         !.who = k, !.text = text,
                         !.refreshed = o.last.refreshed, !.ret = o.ret]
    /\ UNCHANGED <<moduleVars, gate, arg, failed_at, OFFLINE, BUNDLE_TTL, _patterns, heap,
                   _compiled, _fetched_at, _min_sev, now, attempted, built, last, ret, pc, loc>>

InstanceTexts == { <<"a">> }

InstanceResponses ==
    { Resp("transport", JNull), Resp("json", GoodBundle), Resp("json", MalformedBundle) }

InstanceCall ==
    \E k \in Scanners : \E text \in InstanceTexts :
        IF NeedsRefresh(now, instances.of[k].fetched_at, BUNDLE_TTL) /\ ~OFFLINE
        THEN \E resp \in InstanceResponses : ScanOn(k, text, resp)
        ELSE ScanOn(k, text, Resp("transport", JNull))

NextInstances == Tick \/ InstanceCall

\* The instances under the default minimum severity (line 25).
InitInstances == Init /\ MIN_SEVERITY = "High"

SpecInstances == InitInstances /\ [][NextInstances]_vars

-----------------------------------------------------------------------------
(* Properties of the scanner called by one caller at a time *)

\* The compiled registry: the list self._compiled refers to.
Registry == heap[_compiled]

BuiltinIds ==
    << "aws_access_key_id", "openai_api_key", "github_pat", "rsa_private_key",
       "generic_secret", "sql_drop_table", "sql_delete_no_where", "sql_truncate",
       "prompt_injection" >>

\* C1 (as claimed): Staleness.  Once a registry has been built, a scan() whose
\* refresh did not fetch successfully (the fetch failed, or none was due)
\* leaves the compiled registry as it was and returns what that registry
\* gives for the text: a failed fetch never empties or replaces the registry.
C1_Staleness ==
    [][ (ScanCall /\ built /\ ~OFFLINE /\ last'.fetch # "ok")
            => /\ heap'[_compiled'] = Registry
               /\ ret' = MatchAndReduce(Registry, last'.text, _min_sev) ]_vars

\* C2: Fallback of last resort.  After a scan() whose refresh was the
\* scanner's first and whose fetch failed, the compiled registry holds nine
\* matchers, one for each built-in pattern, in list order.
C2_FallbackOfLastResort ==
    (last.first /\ last.fetch = "fail")
        => /\ Len(Registry) = 9
           /\ \A i \in 1..9 : Registry[i].id = BuiltinIds[i]
           /\ Registry = _BUILTIN_PATTERNS.items

C2_Witness ==
    /\ last.first /\ last.fetch = "fail"
    /\ Len(Registry) = 9
    /\ ret.kind = "result" /\ ret.hit

\* C3 (as claimed): No scan() raises: every call returns a ScanResult.
C3_NoExceptionSurfaces == ret.kind # "raise"

\* C4 (as claimed): First-use refresh.  A scan() has returned only if a
\* refresh has been attempted: no scan matches a registry never loaded.
C4_FirstUseRefresh == ret.kind # "none" => attempted

\* C5: Offline mode.  With OFFLINE set no scan() issues a fetch, and once a
\* refresh has run the compiled registry is the built-in list compiled.
C5_Offline ==
    OFFLINE => /\ last.fetch = "none"
               /\ attempted => /\ Registry = _BUILTIN_PATTERNS.items
                               /\ built

\* A second refresh, after the TTL expired again, has run offline and the
\* scan detected a built-in signature.
C5_Witness ==
    /\ OFFLINE /\ last.refreshed /\ ~last.first
    /\ _fetched_at > BUNDLE_TTL + 1
    /\ ret.kind = "result" /\ ret.hit /\ ret.pattern = "aws_access_key_id"

\* The severity of a matcher, Warn when the bundle names none for it.
SeverityOf(m) == IF "severity" \in m.keys THEN m.severity ELSE "Warn"

Rank(sev) == IF sev = "Critical" THEN 2 ELSE IF sev = "High" THEN 1 ELSE 0

\* The matchers of the registry (by place) that qualify for the last text:
\* the regex occurs in the text and the severity is at or above the floor.
Qualifying ==
    { k \in 1..Len(Registry) :
        /\ Search(Registry[k].regex, last.text)
        /\ SeverityOf(Registry[k]) \in Severities
        /\ Rank(SeverityOf(Registry[k])) >= Rank(_min_sev) }

\* The matcher a hit record was copied from.
MatcherOf(h) == [h EXCEPT !.keys = @ \ {"severity_enum"}, !.severity_enum = None]

\* The last scan() got as far as matching (its _load, if any, returned).
Matched == ret.kind = "result" \/ ret.exc = "ValueError"

\* C8 (as claimed): Hit set.  Every scan() that matches returns a result
\* whose allHits are exactly the qualifying matchers of the registry, each
\* once; hit is true iff there is one, and a result without hit has no
\* pattern, severity or category.
C8_HitSet ==
    Matched =>
        /\ ret.kind = "result"
        /\ { MatcherOf(ret.all_hits[i]) : i \in 1..Len(ret.all_hits) }
               = { Registry[k] : k \in Qualifying }
        /\ Len(ret.all_hits) = Cardinality(Qualifying)
        /\ ret.hit = (Qualifying # {})
        /\ ~ret.hit => /\ ret.pattern = None /\ ret.severity = None
                       /\ ret.category = None

\* The id of a hit record: its `id`, else its `pattern_name`.
IdOf(h) ==
    IF "id" \in h.keys THEN h.id
    ELSE IF "pattern_name" \in h.keys THEN h.pattern_name ELSE None

\* C9: ScanResult invariant.  In every ScanResult scan() returns, hit is
\* false iff allHits is empty, and with hit the pattern, severity and
\* category are those of allHits[0].
C9_ScanResultInvariant ==
    ret.kind = "result" =>
        /\ (ret.hit = FALSE) <=> (ret.all_hits = <<>>)
        /\ ret.hit =>
             /\ ret.pattern = IdOf(ret.all_hits[1])
             /\ ret.severity = SeverityOf(MatcherOf(ret.all_hits[1]))
             /\ ret.severity = ret.all_hits[1].severity_enum
             /\ ret.category = (IF "category" \in ret.all_hits[1].keys
                                THEN ret.all_hits[1].category ELSE None)

\* A result with several hits of different severities, after a second
\* refresh, whose primary has a category.
C9_Witness ==
    /\ ret.kind = "result" /\ ret.hit
    /\ last.refreshed /\ ~last.first
    /\ Len(ret.all_hits) >= 3
    /\ ret.all_hits[1].severity_enum # ret.all_hits[Len(ret.all_hits)].severity_enum

\* The place in the registry of the matcher a hit was copied from.
PlaceOf(h) == CHOOSE k \in 1..Len(Registry) : Registry[k] = MatcherOf(h)

\* C10: Ranking.  allHits is sorted by severity descending, hits of equal
\* severity keep the order of the compiled list, and the primary is the
\* first matcher in list order among the qualifying ones of maximal
\* severity; no hit has a higher severity than the primary.
C10_Ranking ==
    (ret.kind = "result" /\ ret.hit) =>
        /\ \A i, j \in 1..Len(ret.all_hits) :
             i < j =>
               /\ Rank(ret.all_hits[i].severity_enum) >= Rank(ret.all_hits[j].severity_enum)
               /\ ret.all_hits[i].severity_enum = ret.all_hits[j].severity_enum
                    => PlaceOf(ret.all_hits[i]) < PlaceOf(ret.all_hits[j])
        /\ \A i \in 1..Len(ret.all_hits) :
             Rank(ret.all_hits[i].severity_enum) <= Rank(ret.severity)
        /\ LET best == { k \in Qualifying :
                           \A q \in Qualifying :
                               Rank(SeverityOf(Registry[q])) <= Rank(SeverityOf(Registry[k])) }
               first == CHOOSE k \in best : \A q \in best : k <= q
           IN  ret.pattern = IdOf(Registry[first])

\* Four hits: two of them tie, and the sort moved a later matcher of the
\* list in front of an earlier one.
C10_Witness ==
    /\ ret.kind = "result" /\ ret.hit
    /\ Len(ret.all_hits) >= 4
    /\ \E i \in 1..(Len(ret.all_hits) - 1) :
          ret.all_hits[i].severity_enum = ret.all_hits[i + 1].severity_enum
    /\ \E i \in 1..(Len(ret.all_hits) - 1) :
          PlaceOf(ret.all_hits[i]) > PlaceOf(ret.all_hits[i + 1])

-----------------------------------------------------------------------------
(* Properties of the scanner called from several threads *)

\* C6 (as claimed): Single-flight refresh.  At most one registry fetch is
\* outstanding at any moment.
C6_SingleFlight == Cardinality({ t \in Threads : pc[t] = "fetch" }) <= 1

\* The registries a refresh can build from the bundles the registry serves.
CompleteRegistries ==
    { CompileAll(IterItems(TryValue(r)), <<>>).list :
          r \in { q \in ConcResponses : ~TryRaises(q) } }

\* C7 (as claimed): Atomic registry swap.  The matchers a scan() has run
\* when it returns are those of one complete registry: never an empty or
\* partially filled list, nor one mixing two generations.
C7_AtomicSwap ==
    \A t \in Threads :
        (pc[t] = "return" /\ loc[t].result.kind = "result")
            => loc[t].seen \in CompleteRegistries

-----------------------------------------------------------------------------
(* Properties of the value types *)

\* C11: Derived verdicts.  For the ScanResult whose verdicts were read last:
\* blocked is true exactly when hit is true and the severity is Critical,
\* warned exactly when hit is true and the severity is High or Warn; the two
\* are never both true, both are false when hit is false, and for a result
\* scan() returned with hit true exactly one of them is true.
C11_DerivedVerdicts ==
    probe.by # None =>
        LET r == probe.result IN
        /\ probe.blocked <=> (r.hit /\ r.severity = "Critical")
        /\ probe.warned <=> (r.hit /\ (r.severity = "High" \/ r.severity = "Warn"))
        /\ ~(probe.blocked /\ probe.warned)
        /\ ~r.hit => (~probe.blocked /\ ~probe.warned)
        /\ (probe.by = "scan" /\ r.hit) => (probe.blocked # probe.warned)

\* The verdicts of a result scan() returned with a Critical primary hit and a
\* High one behind it have been read.
C11_Witness ==
    /\ probe.by = "scan"
    /\ probe.result.hit
    /\ probe.blocked
    /\ Len(probe.result.all_hits) >= 2

\* C12: Severity order.  For the severities a, b, c compared last, a >= b
\* holds exactly when rank(a) >= rank(b) with Warn 0, High 1, Critical 2, and
\* the relation is reflexive, antisymmetric, transitive and total.
C12_SeverityOrder ==
    probe.a # None =>
        /\ probe.ge.ab <=> (Rank(probe.a) >= Rank(probe.b))
        /\ probe.ge.aa
        /\ (probe.ge.ab /\ probe.ge.ba) => probe.a = probe.b
        /\ (probe.ge.ab /\ probe.ge.bc) => probe.ge.ac
        /\ probe.ge.ab \/ probe.ge.ba

\* Critical >= High >= Warn has been evaluated, and so has Warn >= Critical.
C12_Witness ==
    /\ probe.a = "Critical" /\ probe.b = "High" /\ probe.c = "Warn"
    /\ probe.ge.ab /\ probe.ge.bc /\ probe.ge.ac /\ ~probe.ge.ba

-----------------------------------------------------------------------------
(* Further properties of the scanner called by one caller at a time *)

\* C13 (as claimed): Unrecognized severity.  No compiled matcher carries a
\* severity other than Warn, High or Critical, and no scan() fails on one: a
\* pattern with an unrecognized severity is rejected when the bundle is
\* compiled.
C13_UnrecognizedSeverity ==
    /\ \A k \in 1..Len(Registry) :
           "severity" \in Registry[k].keys => Registry[k].severity \in Severities
    /\ ret.exc # "ValueError"

\* The bundle a 2xx response carries, when its body has one of the two
\* shapes: a list, or an object whose `patterns` is a list.
HasBundle(resp) ==
    /\ resp.kind = "json"
    /\ \/ resp.body.t = "list"
       \/ resp.body.t = "dict" /\ resp.body.has_patterns /\ resp.body.patterns.t = "list"

BundleOf(resp) == IF resp.body.t = "list" THEN resp.body ELSE resp.body.patterns

WellFormed(p) == p.obj /\ "regex" \in p.keys

\* The responses that carry a bundle of pattern objects.
BundleResponses ==
    { resp \in Responses :
        /\ HasBundle(resp)
        /\ \A i \in 1..Len(BundleOf(resp).items) : WellFormed(BundleOf(resp).items[i]) }

Compiles(p) == ~ReError(p.regex)

\* C14: Per-pattern compile failure.  A scan() whose refresh fetched a bundle
\* of pattern objects installs that bundle and compiles exactly its patterns
\* whose regex compiles, in bundle order; the refresh is completed: the
\* timestamp is the time of the call.
C14_CompileFailure ==
    [][ \A resp \in BundleResponses :
          ( /\ NeedsRefresh(now, _fetched_at, BUNDLE_TTL) /\ ~OFFLINE
            /\ last'.refreshed
            /\ Scan(last'.text, resp) )
          => /\ _patterns' = BundleOf(resp)
             /\ heap'[_compiled'] = SelectSeq(BundleOf(resp).items, Compiles)
             /\ _fetched_at' = now
             /\ built'
             /\ last'.fetch = "ok" ]_vars

\* A refresh has fetched the bundle whose second regex does not compile: the
\* first and the third pattern are compiled, the timestamp is updated.
C14_Witness ==
    /\ last.refreshed /\ last.fetch = "ok"
    /\ _patterns = BadRegexBundle
    /\ Len(Registry) = 2
    /\ Registry[1].id = "p_x" /\ Registry[2].id = "p_b"
    /\ _fetched_at = now /\ now > 0

\* C16 (as claimed): Retry cadence after failure.  After a fetch that failed
\* while a registry existed, at the time failed_at, a scan() issues a fetch
\* exactly when more than BUNDLE_TTL has passed since failed_at.
C16_RetryCadence ==
    [][ (failed_at >= 0 /\ ScanCall)
            => (last'.fetch # "none" <=> now - failed_at > BUNDLE_TTL) ]_vars

\* C18 (as claimed): Bundle body shape.  A 2xx response whose body is a JSON
\* object without the key `patterns` is a failed fetch: a registry that has
\* been built stays as it was.
C18_BundleBodyShape ==
    [][ \A text \in Texts :
          ( /\ NeedsRefresh(now, _fetched_at, BUNDLE_TTL) /\ ~OFFLINE
            /\ Scan(text, Resp("json", JDict(FALSE, JNull))) )
          => /\ last'.fetch = "fail"
             /\ built => heap'[_compiled'] = Registry ]_vars

\* C19: Determinism.  A scan() of the text of the scan() before it, made
\* with no refresh, returns (or raises) what that scan() did.
C19_Determinism ==
    [][ (~last'.refreshed /\ ret.kind # "none" /\ last'.text = last.text /\ ScanCall)
            => ret' = ret ]_vars

\* A scan() that did not refresh has returned two hits from a registry that
\* was built.
C19_Witness ==
    /\ built /\ ~last.refreshed
    /\ ret.kind = "result" /\ Len(ret.all_hits) >= 2

-----------------------------------------------------------------------------
(* Properties of the default instance *)

\* C15 (as claimed): Default-instance singleton.  The default RemoteScanner is
\* constructed at most once, and all the calls of scanner() that have
\* returned have returned the same instance.
C15_Singleton ==
    /\ made <= 1
    /\ \A t, u \in Callers :
           (caller[t].got # None /\ caller[u].got # None)
               => caller[t].got = caller[u].got

-----------------------------------------------------------------------------
(* Properties of the configuration *)

\* C17 (as claimed): Configuration resolved at construction.  The offline
\* flag, the TTL and the severity floor a constructed scanner works with are
\* the values the environment had when it was constructed (the environment
\* is not changed afterwards); constructed with the offline flag set, it
\* issues no fetch.
C17_ConfigAtConstruction ==
    phase = "constructed" =>
        /\ OFFLINE = env.offline
        /\ BUNDLE_TTL = env.ttl
        /\ _min_sev = env.min_sev
        /\ env.offline => last.fetch = "none"

-----------------------------------------------------------------------------
(* Properties of the adapters *)

\* How many times the latest adapter call invoked the wrapped callable.
Calls == Cardinality({ k \in 1..Len(gate.trace) : gate.trace[k] = "call" })

\* The latest adapter call let the call proceed.
Proceeded == IF gate.adapter = "SigilProxy" THEN gate.out = "None" ELSE Calls = 1

\* C20: Adapter gate.  In every adapter call the scan comes first and
\* before the wrapped call; when the scan returned a result, the call
\* proceeds exactly when the primary severity of the result is not that of
\* a Critical hit, and then the wrapped callable is invoked exactly once.
C20_AdapterGate ==
    gate.adapter # None =>
        /\ gate.trace # <<>> /\ gate.trace[1] = "scan"
        /\ Calls <= 1
        /\ ret.kind = "raise" => ~Proceeded /\ Calls = 0
        /\ ret.kind = "result" =>
               /\ Proceeded <=> ~(ret.hit /\ ret.severity = "Critical")
               /\ (Proceeded /\ gate.adapter # "SigilProxy")
                      => gate.trace[Len(gate.trace)] = "call"

\* An adapter scanned arguments that gave a High hit and invoked the wrapped
\* callable once.
C20_Witness ==
    /\ gate.adapter \notin {None, "SigilProxy"}
    /\ ret.kind = "result" /\ ret.hit /\ ret.severity = "High"
    /\ Calls = 1

-----------------------------------------------------------------------------
(* Properties of the registry and of scan(), continued *)

\* C21 (as claimed): Duplicate ids are last-wins.  The compiled registry
\* holds at most one matcher per id, and no result lists the same id twice
\* in allHits.
C21_DuplicateIds ==
    /\ \A i, j \in 1..Len(Registry) :
           i < j => IdOf(Registry[i]) # IdOf(Registry[j])
    /\ \A i, j \in 1..Len(ret.all_hits) :
           i < j => IdOf(ret.all_hits[i]) # IdOf(ret.all_hits[j])

\* C22 (as claimed): Severity comparison operators are mutually consistent.
\* For the severities a, b compared last: a > b exactly when a >= b and
\* a # b, a <= b exactly when b >= a, a < b exactly when not a >= b.
C22_ComparisonOperators ==
    probe.a # None =>
        /\ probe.gt <=> (probe.ge.ab /\ probe.a # probe.b)
        /\ probe.le <=> probe.ge.ba
        /\ probe.lt <=> ~probe.ge.ab

\* The dicts and lists json.dumps can serialize.
Serializable == { v \in Structured : v.ok }

\* C23: Input normalization.  For every dict or list v that has a JSON
\* serialization s, scan(v) and scan_json(v) leave the scanner as scan(s)
\* does and return what it returns; the text matched is s; a refresh is made
\* exactly when the registry is stale, whatever the value.  A str is matched
\* as it is.
C23_InputNormalization ==
    [][ /\ \A entry \in Entries : \A v \in Serializable : \A resp \in InputResponses :
              (arg' = [entry |-> entry, v |-> v] /\ Enter(entry, v, resp))
              => LET s == ScanOutcome(JsonDumps(v), resp) IN
                 /\ ret' = s.ret
                 /\ last' = s.last
                 /\ _fetched_at' = s.fetched_at
                 /\ heap'[_compiled'] = s.list
                 /\ last'.refreshed = NeedsRefresh(now, _fetched_at, BUNDLE_TTL)
        /\ \A v \in Values \ Structured : \A resp \in InputResponses :
              (arg' = [entry |-> "scan", v |-> v] /\ Enter("scan", v, resp))
              => /\ ret' = ScanOutcome(v.text, resp).ret
                 /\ last'.text = v.text
                 /\ last'.refreshed = NeedsRefresh(now, _fetched_at, BUNDLE_TTL) ]_vars

\* The dict holding the string `"a` has been scanned on the bundle with the
\* patterns on quotes: the text matched is its serialization, in which the
\* quote is escaped, and both the quote-a and the escaped-quote pattern hit.
C23_Witness ==
    /\ arg = [entry |-> "scan", v |-> Dict(<< <<"\"", "a">> >>, TRUE)]
    /\ last.text = <<"{", "\"", "\\", "\"", "a", "\"", "}">>
    /\ ret.kind = "result" /\ ret.hit
    /\ Len(ret.all_hits) = 2
    /\ ret.pattern = "p_esc"


-----------------------------------------------------------------------------
(* Properties of several instances *)

\* C24: Instance independence.  A scan() on one instance, with or without a
\* refresh, returning or raising, leaves the pattern list, the compiled
\* registry and the refresh timestamp of every other instance (default or
\* private) as they were, and leaves the module's built-in list as it was.
C24_InstanceIndependence ==
    [][ \A k \in Scanners :
            (instances'.who = k /\ instances' # instances)
                => /\ \A j \in Scanners \ {k} :
                          /\ instances'.of[j].patterns = instances.of[j].patterns
                          /\ instances'.of[j].list = instances.of[j].list
                          /\ instances'.of[j].fetched_at = instances.of[j].fetched_at
                   /\ instances'.builtin = instances.builtin
                   /\ instances'.builtin = _BUILTIN_PATTERNS ]_vars

\* A failed refresh on a private instance (the scan raised) next to a default
\* instance holding the registry's bundle and a private one never used.
C24_Witness ==
    /\ instances.who = "private1" /\ instances.refreshed /\ instances.ret.kind = "raise"
    /\ instances.of["default"].list = GoodBundle.items
    /\ instances.of["private1"].list # GoodBundle.items
    /\ instances.of["private2"] = NewScanner

-----------------------------------------------------------------------------
(* Properties of scan() without a refresh *)

\* C25 (as claimed): Scan within TTL is read-only.  A scan() called when at
\* most BUNDLE_TTL has passed since the last call of _load issues no fetch and
\* leaves the pattern list, the compiled registry with its pattern records
\* and the refresh timestamp as they were, whatever the text and the result.
C25_ReadOnlyWithinTTL ==
    [][ (last.loaded_at >= 0 /\ now - last.loaded_at <= BUNDLE_TTL /\ ScanCall)
            => /\ last'.fetch = "none"
               /\ _patterns' = _patterns
               /\ heap'[_compiled'] = Registry
               /\ _fetched_at' = _fetched_at ]_vars

=============================================================================
